---- MODULE Spec2Model ----
(***************************************************************************)
(* The Registration Store of mcp-registration-assistant                     *)
(* (src/manager.py, RegistrationManager) with its two tool adapters         *)
(* (src/tools/add_registrations.py, src/tools/get_all_registrations.py).    *)
(*                                                                          *)
(* Strings are sequences of one-character strings, so that str.lower,       *)
(* str.strip, the substring test and the csv encoding are computed and not  *)
(* assumed.  The record file is a sequence of text lines; no field that add *)
(* writes holds a line break (each passed its validator or is a formatted   *)
(* time), so one row is one line.  validator.py is not among the sources:   *)
(* the three checks follow section 4.1 of the specification.                *)
(***************************************************************************)
EXTENDS Integers, Sequences, FiniteSets, TLC

VARIABLES
    file,         \* user_registrations.csv: [exists, lines]
    constructed,  \* the RegistrationManager instances built so far
    clock,        \* the wall clock, in ticks; it only advances
    call,         \* the last completed store call (operation and arguments), as
                  \* long as nothing outside the program touched the file since
    result,       \* what that call returned
    fileBefore,   \* the file as that call found it
    addLog,       \* history: the rows add wrote while the file was the program's
                  \* alone, in completion order
    tampered,     \* history: the file was removed from outside the program
    perm,         \* what open() on the file is allowed: "rw", "r" or "none"
    pc,           \* interleaved add calls: where each caller stands
    args,         \* interleaved add calls: each caller's arguments
    stamp,        \* interleaved add calls: each caller's registration_date
    ret           \* interleaved add calls: each caller's returned value

vars == <<file, constructed, clock, call, result, fileBefore, addLog, tampered,
          perm, pc, args, stamp, ret>>

(***************************************************************************)
(* Bounds of the model.                                                    *)
(***************************************************************************)
MaxClock == 2
MaxRows == 3

(***************************************************************************)
(* Python str operations.                                                  *)
(***************************************************************************)
UpperChars == <<"A","B","C","D","E","F","G","H","I","J","K","L","M",
                "N","O","P","Q","R","S","T","U","V","W","X","Y","Z">>
LowerChars == <<"a","b","c","d","e","f","g","h","i","j","k","l","m",
                "n","o","p","q","r","s","t","u","v","w","x","y","z">>
DigitChars == <<"0","1","2","3","4","5","6","7","8","9">>
Whitespace == {" ", "\t", "\n", "\r"}

Range(s) == {s[i] : i \in 1..Len(s)}

UpperSet == Range(UpperChars)
LowerSet == Range(LowerChars)
DigitSet == Range(DigitChars)
LowerOf == [c \in UpperSet |->
              LowerChars[CHOOSE i \in 1..Len(UpperChars) : UpperChars[i] = c]]
DigitOf == [c \in DigitSet |->
              (CHOOSE i \in 1..Len(DigitChars) : DigitChars[i] = c) - 1]

IsUpper(c) == c \in UpperSet
IsLower(c) == c \in LowerSet
IsDigit(c) == c \in DigitSet
IsLetter(c) == IsUpper(c) \/ IsLower(c)

char_lower(c) == IF IsUpper(c) THEN LowerOf[c] ELSE c

\* str.lower()
str_lower(s) == [i \in 1..Len(s) |-> char_lower(s[i])]

\* str.strip(): drops leading and trailing whitespace
RECURSIVE lstrip(_)
lstrip(s) == IF s # <<>> /\ Head(s) \in Whitespace THEN lstrip(Tail(s)) ELSE s
RECURSIVE rstrip(_)
rstrip(s) ==
    IF s # <<>> /\ s[Len(s)] \in Whitespace THEN rstrip(SubSeq(s, 1, Len(s) - 1)) ELSE s
str_strip(s) == rstrip(lstrip(s))

\* q in s
str_contains(q, s) ==
    \E i \in 1..(Len(s) - Len(q) + 1) : SubSeq(s, i, i + Len(q) - 1) = q

DigitVal(c) == DigitOf[c]

(***************************************************************************)
(* csv.writer(f).writerow(fields) and csv.reader, default (excel) dialect, *)
(* QUOTE_MINIMAL.  A line is kept without its terminator.                  *)
(***************************************************************************)
QuoteChar == "\""
Delimiter == ","

NeedsQuote(field) ==
    \E i \in 1..Len(field) : field[i] \in {Delimiter, QuoteChar, "\n", "\r"}

RECURSIVE DoubleQuotes(_)
DoubleQuotes(field) ==
    IF field = <<>> THEN <<>>
    ELSE (IF Head(field) = QuoteChar THEN <<QuoteChar, QuoteChar>> ELSE <<Head(field)>>)
         \o DoubleQuotes(Tail(field))

csv_field(field) ==
    IF NeedsQuote(field) THEN <<QuoteChar>> \o DoubleQuotes(field) \o <<QuoteChar>>
    ELSE field

RECURSIVE csv_join(_)
csv_join(fields) ==
    IF fields = <<>> THEN <<>>
    ELSE IF Len(fields) = 1 THEN csv_field(fields[1])
    ELSE csv_field(Head(fields)) \o <<Delimiter>> \o csv_join(Tail(fields))

\* the text of one row as writerow emits it
csv_writerow(fields) == csv_join(fields)

RECURSIVE csv_scan(_, _, _, _, _)
csv_scan(line, i, cur, inQuote, done) ==
    IF i > Len(line) THEN Append(done, cur)
    ELSE LET c == line[i] IN
         IF inQuote
         THEN IF c = QuoteChar
              THEN IF i < Len(line) /\ line[i + 1] = QuoteChar
                   THEN csv_scan(line, i + 2, Append(cur, QuoteChar), TRUE, done)
                   ELSE csv_scan(line, i + 1, cur, FALSE, done)
              ELSE csv_scan(line, i + 1, Append(cur, c), TRUE, done)
         ELSE IF c = Delimiter
              THEN csv_scan(line, i + 1, <<>>, FALSE, Append(done, cur))
              ELSE IF c = QuoteChar /\ cur = <<>>
                   THEN csv_scan(line, i + 1, cur, TRUE, done)
                   ELSE csv_scan(line, i + 1, Append(cur, c), FALSE, done)

\* the fields csv.reader yields for one line; an empty line yields no field
csv_readrow(line) == IF line = <<>> THEN <<>> ELSE csv_scan(line, 1, <<>>, FALSE, <<>>)

\* csv.DictReader(f): the first line gives the keys, every later non-empty line
\* one dict; a short row is padded with None (restval), a later duplicate key wins
NoneValue == <<"N","o","n","e","!">>

DictRow(fieldnames, row) ==
    [k \in Range(fieldnames) |->
        LET i == CHOOSE j \in 1..Len(fieldnames) :
                    /\ fieldnames[j] = k
                    /\ \A m \in 1..Len(fieldnames) : fieldnames[m] = k => m <= j
        IN  IF i <= Len(row) THEN row[i] ELSE NoneValue]

RECURSIVE DictRows(_, _)
DictRows(fieldnames, lines) ==
    IF lines = <<>> THEN <<>>
    ELSE LET dict(row) == IF row = <<>> THEN <<>> ELSE <<DictRow(fieldnames, row)>>
         IN  dict(csv_readrow(Head(lines))) \o DictRows(fieldnames, Tail(lines))

csv_DictReader(lines) ==
    IF lines = <<>> THEN <<>> ELSE DictRows(csv_readrow(Head(lines)), Tail(lines))

(***************************************************************************)
(* validator.RegistrationValidator.  Each check returns <<passed, reason>>. *)
(***************************************************************************)
MinNameLen == 2
MaxAge == 120
Today == <<2025, 1, 1>>
PassMsg == ""

NameChar(c) == IsLetter(c) \/ c \in {" ", "-", "'", "."}

validate_name(name) ==
    LET t == str_strip(name) IN
    IF t = <<>> \/ Len(t) < MinNameLen \/ \E i \in 1..Len(t) : ~NameChar(t[i])
    THEN <<FALSE, "InvalidName">>
    ELSE <<TRUE, PassMsg>>

LocalChar(c) == IsLetter(c) \/ IsDigit(c) \/ c \in {".", "_", "%", "+", "-"}
DomainChar(c) == IsLetter(c) \/ IsDigit(c) \/ c \in {".", "-"}

\* local-part "@" domain-with-dot
EmailPattern(email) ==
    \E at \in 2..(Len(email) - 3) :
        /\ email[at] = "@"
        /\ \A i \in 1..(at - 1) : LocalChar(email[i])
        /\ \A i \in (at + 1)..Len(email) : DomainChar(email[i])
        /\ \E dot \in (at + 2)..(Len(email) - 1) :
              /\ email[dot] = "."
              /\ \A i \in (dot + 1)..Len(email) : IsLetter(email[i])

validate_email(email) ==
    IF EmailPattern(email) THEN <<TRUE, PassMsg>> ELSE <<FALSE, "InvalidEmail">>

IsLeap(y) == (y % 4 = 0 /\ y % 100 # 0) \/ y % 400 = 0
DaysIn(y, m) ==
    IF m = 2 THEN (IF IsLeap(y) THEN 29 ELSE 28)
    ELSE IF m \in {4, 6, 9, 11} THEN 30 ELSE 31

\* YYYY-MM-DD
DatePattern(dob) ==
    /\ Len(dob) = 10
    /\ dob[5] = "-" /\ dob[8] = "-"
    /\ \A i \in {1, 2, 3, 4, 6, 7, 9, 10} : IsDigit(dob[i])

ParseDate(dob) ==
    << 1000 * DigitVal(dob[1]) + 100 * DigitVal(dob[2])
         + 10 * DigitVal(dob[3]) + DigitVal(dob[4]),
       10 * DigitVal(dob[6]) + DigitVal(dob[7]),
       10 * DigitVal(dob[9]) + DigitVal(dob[10]) >>

DateLeq(a, b) ==
    \/ a[1] < b[1]
    \/ a[1] = b[1] /\ a[2] < b[2]
    \/ a[1] = b[1] /\ a[2] = b[2] /\ a[3] <= b[3]

validate_date_of_birth(dob) ==
    IF ~DatePattern(dob) THEN <<FALSE, "InvalidDateFormat">>
    ELSE LET parsed(d) ==
                 IF ~(d[1] >= 1 /\ d[2] \in 1..12 /\ d[3] \in 1..DaysIn(d[1], d[2]))
                 THEN <<FALSE, "InvalidDateFormat">>
                 ELSE IF \/ ~DateLeq(d, Today)
                         \/ ~DateLeq(<<Today[1] - MaxAge, Today[2], Today[3]>>, d)
                      THEN <<FALSE, "InvalidDateRange">>
                      ELSE <<TRUE, PassMsg>>
         IN  parsed(ParseDate(dob))

(***************************************************************************)
(* datetime.now().strftime("%Y-%m-%d %H:%M:%S"): the clock counts ticks,   *)
(* the text keeps whole seconds.                                           *)
(***************************************************************************)
TicksPerSecond == 2

TwoDigits(n) == <<DigitChars[((n \div 10) % 10) + 1], DigitChars[(n % 10) + 1]>>

strftime(now) ==
    LET secs == now \div TicksPerSecond IN
    <<"2","0","2","5","-","0","1","-","0","1"," ">>
    \o TwoDigits((secs \div 3600) % 24) \o <<":">>
    \o TwoDigits((secs \div 60) % 60) \o <<":">>
    \o TwoDigits(secs % 60)

(***************************************************************************)
(* src/manager.py                                                          *)
(***************************************************************************)
KName == <<"N","a","m","e">>
KEmail == <<"E","m","a","i","l">>
KDob == <<"D","a","t","e","_","o","f","_","B","i","r","t","h">>
KRegDate == <<"R","e","g","i","s","t","r","a","t","i","o","n","_","D","a","t","e">>
REQUIRED_FIELDS == <<KName, KEmail, KDob, KRegDate>>

NoFile == [exists |-> FALSE, lines |-> <<>>]

\* open(path, 'w') ... writerow(fields)
open_write(f, fields) == [exists |-> TRUE, lines |-> <<csv_writerow(fields)>>]

\* variant: mode 'w' where 'a' is meant
open_append_truncating(f, fields) == [exists |-> TRUE, lines |-> <<csv_writerow(fields)>>]

\* variant: the new row goes in front of the older rows
open_append_front(f, fields) ==
    [exists |-> TRUE,
     lines |-> IF f.exists /\ f.lines # <<>>
               THEN <<Head(f.lines), csv_writerow(fields)>> \o Tail(f.lines)
               ELSE <<csv_writerow(fields)>>]

\* variant: the write is skipped when the email (second field) is already there
open_append_unless_present(f, fields) ==
    IF f.exists /\ \E i \in 2..Len(f.lines) :
                      str_lower(csv_readrow(f.lines[i])[2]) = str_lower(fields[2])
    THEN f
    ELSE [exists |-> TRUE,
          lines |-> Append(IF f.exists THEN f.lines ELSE <<>>, csv_writerow(fields))]

\* open(path, 'a') ... writerow(fields): creates the file when it is missing
open_append(f, fields) ==
    [exists |-> TRUE,
     lines |-> Append(IF f.exists THEN f.lines ELSE <<>>, csv_writerow(fields))]

\* variant: writes the header without looking for the file
ensure_csv_exists_unconditional(f) == open_write(f, REQUIRED_FIELDS)

ensure_csv_exists(f) == IF ~f.exists THEN open_write(f, REQUIRED_FIELDS) ELSE f

\* variant: a missing file is reported as a failure
get_all_registrations_missing_fails(f) ==
    IF ~f.exists THEN [success |-> FALSE, error |-> "FileNotFoundError", data |-> <<>>]
    ELSE [success |-> TRUE, data |-> csv_DictReader(f.lines)]

get_all_registrations(f) ==
    IF ~f.exists THEN [success |-> TRUE, count |-> 0, data |-> <<>>]
    ELSE [success |-> TRUE, data |-> csv_DictReader(f.lines)]

\* any(r["Email"].lower() == email.lower() for r in data): stops at the first
\* match; a row without the key raises KeyError
RECURSIVE any_email(_, _)
any_email(data, email) ==
    IF data = <<>> THEN [raised |-> FALSE, value |-> FALSE]
    ELSE IF KEmail \notin DOMAIN Head(data) THEN [raised |-> TRUE, value |-> FALSE]
    ELSE IF str_lower(Head(data)[KEmail]) = str_lower(email)
         THEN [raised |-> FALSE, value |-> TRUE]
         ELSE any_email(Tail(data), email)

\* variant: compares without lower()
email_exists_case_sensitive(f, email) ==
    [raised |-> FALSE,
     value |-> \E i \in 1..Len(get_all_registrations(f).data) :
                  get_all_registrations(f).data[i][KEmail] = email]

\* variant: lowers the argument only
email_exists_lower_one_side(f, email) ==
    [raised |-> FALSE,
     value |-> \E i \in 1..Len(get_all_registrations(f).data) :
                  get_all_registrations(f).data[i][KEmail] = str_lower(email)]

email_exists(f, email) == any_email(get_all_registrations(f).data, email)

\* [r for r in data if query in r["Name"].lower() or query in r["Email"].lower()]
RECURSIVE filter_query(_, _)
filter_query(data, query) ==
    IF data = <<>> THEN [raised |-> FALSE, value |-> <<>>]
    ELSE LET r == Head(data)
             keep(rest) == [raised |-> rest.raised, value |-> <<r>> \o rest.value]
         IN
         IF KName \notin DOMAIN r THEN [raised |-> TRUE, value |-> <<>>]
         ELSE IF str_contains(query, str_lower(r[KName]))
              THEN keep(filter_query(Tail(data), query))
         ELSE IF KEmail \notin DOMAIN r THEN [raised |-> TRUE, value |-> <<>>]
         ELSE IF str_contains(query, str_lower(r[KEmail]))
              THEN keep(filter_query(Tail(data), query))
              ELSE filter_query(Tail(data), query)

KeyError == [raised |-> "KeyError"]
Returned(r) == "success" \in DOMAIN r

\* variant: the email is not looked at
search_registrations_name_only(f, query) ==
    LET q == str_strip(str_lower(query))
        rows == get_all_registrations(f).data
        found == SelectSeq(rows, LAMBDA r : str_contains(q, str_lower(r[KName])))
    IN  [success |-> TRUE, count |-> Len(found), data |-> found]

search_registrations(f, query) ==
    LET q == str_strip(str_lower(query))
        results(found) ==
            IF found.raised THEN KeyError
            ELSE [success |-> TRUE, count |-> Len(found.value), data |-> found.value]
    IN  results(filter_query(get_all_registrations(f).data, q))

\* the three validator calls of add_registration, in call order
run_validators(name, email, dob) ==
    <<validate_name(name), validate_email(email), validate_date_of_birth(dob)>>

\* variant: any() where all() is meant
all_valid_any(v) == v[1][1] \/ v[2][1] \/ v[3][1]

all_valid(v) == v[1][1] /\ v[2][1] /\ v[3][1]

\* variant: reports the first failure only
validation_details_first(v) ==
    IF ~v[1][1] THEN <<v[1][2]>> ELSE IF ~v[2][1] THEN <<v[2][2]>> ELSE <<v[3][2]>>

validation_details(v) == <<v[1][2], v[2][2], v[3][2]>>

validation_failed(v) ==
    [success |-> FALSE, error |-> "Validation failed", details |-> validation_details(v)]

duplicate_email == [success |-> FALSE, error |-> "Email already registered"]

\* the row add_registration writes
stored_row(name, email, dob, registration_date) ==
    <<str_strip(name), str_strip(email), dob, registration_date>>

Registered == <<"R","e","g","i","s","t","e","r","e","d"," ">>

\* the value add_registration returns after writing
success_result(name, email, dob, registration_date) ==
    [success |-> TRUE, message |-> Registered \o name,
     data |-> DictRow(REQUIRED_FIELDS, <<name, email, dob, registration_date>>)]

\* variant: the duplicate check runs before the validators' verdict is used
add_registration_duplicate_first(f, name, email, dob, now) ==
    LET write(registration_date) ==
            [file |-> open_append(f, stored_row(name, email, dob, registration_date)),
             result |-> success_result(name, email, dob, registration_date)]
        validated(v) ==
            IF ~all_valid(v) THEN [file |-> f, result |-> validation_failed(v)]
            ELSE write(strftime(now))
        checked(ex) ==
            IF ex.value THEN [file |-> f, result |-> duplicate_email]
            ELSE validated(run_validators(name, email, dob))
    IN  checked(email_exists(f, email))

\* add_registration as one uninterrupted call: [file, result]
add_registration(f, name, email, dob, now) ==
    LET write(registration_date) ==
            [file |-> open_append(f, stored_row(name, email, dob, registration_date)),
             result |-> success_result(name, email, dob, registration_date)]
        checked(ex) ==
            IF ex.raised THEN [file |-> f, result |-> KeyError]
            ELSE IF ex.value THEN [file |-> f, result |-> duplicate_email]
            ELSE write(strftime(now))
        validated(v) ==
            IF ~all_valid(v) THEN [file |-> f, result |-> validation_failed(v)]
            ELSE checked(email_exists(f, email))
    IN  validated(run_validators(name, email, dob))

(***************************************************************************)
(* src/tools/add_registrations.py: the text report, as its lines.          *)
(***************************************************************************)
add_registration_tool(r) ==
    IF r.success
    THEN [ok |-> TRUE,
          lines |-> <<r.message, r.data[KName], r.data[KEmail], r.data[KDob],
                      r.data[KRegDate]>>]
    ELSE [ok |-> FALSE,
          lines |-> <<r.error>> \o (IF "details" \in DOMAIN r THEN r.details ELSE <<>>)]

(***************************************************************************)
(* The same calls when open() may raise.  os.path.exists does not open the *)
(* file; open(path, 'r') raises on a file that may not be read and         *)
(* open(path, 'a') on one that may not be written.  No call catches it.    *)
(***************************************************************************)
PermissionError == [raised |-> "PermissionError"]

open_read_raises(p, f) == f.exists /\ p = "none"
open_append_raises(p, f) == f.exists /\ p # "rw"

get_all_registrations_io(p, f) ==
    IF open_read_raises(p, f) THEN PermissionError ELSE get_all_registrations(f)

search_registrations_io(p, f, query) ==
    IF open_read_raises(p, f) THEN PermissionError ELSE search_registrations(f, query)

email_exists_io(p, f, email) ==
    IF open_read_raises(p, f) THEN PermissionError
    ELSE LET value(ex) == IF ex.raised THEN KeyError ELSE [value |-> ex.value]
         IN  value(email_exists(f, email))

\* variant: the failed open is caught and the call carries on
add_registration_io_swallowing(p, f, name, email, dob, now) ==
    IF ~open_append_raises(p, f) THEN add_registration(f, name, email, dob, now)
    ELSE [file |-> f, result |-> add_registration(f, name, email, dob, now).result]

add_registration_io(p, f, name, email, dob, now) ==
    IF ~open_append_raises(p, f) THEN add_registration(f, name, email, dob, now)
    ELSE LET raised == [file |-> f, result |-> PermissionError]
             checked(ex) ==
                 IF ex.raised \/ ex.value THEN add_registration(f, name, email, dob, now)
                 ELSE raised
             validated(v) ==
                 IF ~all_valid(v) THEN [file |-> f, result |-> validation_failed(v)]
                 ELSE IF open_read_raises(p, f) THEN raised
                 ELSE checked(email_exists(f, email))
         IN  validated(run_validators(name, email, dob))

(***************************************************************************)
(* src/tools/get_all_registrations.py and src/api.py                       *)
(***************************************************************************)
get_all_registration_tool(r) ==
    IF r.success
    THEN IF r.data = <<>> THEN [ok |-> TRUE, lines |-> <<"No registrations found.">>]
         ELSE IF \E i \in 1..Len(r.data) : ~(Range(REQUIRED_FIELDS) \subseteq DOMAIN r.data[i])
              THEN KeyError
              ELSE [ok |-> TRUE,
                    lines |-> [i \in 1..Len(r.data) |->
                                 <<i, r.data[i][KName], r.data[i][KEmail],
                                   r.data[i][KDob], r.data[i][KRegDate]>>]]
    ELSE [ok |-> FALSE, lines |-> <<r.error>>]

add_registration_http(r) ==
    IF Returned(r) THEN [status |-> 200, result |-> add_registration_tool(r)]
    ELSE [status |-> 400, detail |-> <<"Registration failed", r.raised>>]

get_all_registrations_http(r) ==
    LET answer(text) ==
            IF "ok" \in DOMAIN text THEN [status |-> 200, result |-> text]
            ELSE [status |-> 500, detail |-> <<"Failed to fetch registrations", text.raised>>]
    IN  IF Returned(r) THEN answer(get_all_registration_tool(r))
        ELSE [status |-> 500, detail |-> <<"Failed to fetch registrations", r.raised>>]

(***************************************************************************)
(* The callers' inputs.                                                    *)
(***************************************************************************)
NameAl == <<"A","l">>
NameBoPadded == <<" ","B","o"," ">>
NameComma == <<"A",",","l">>
Names == {NameAl, NameBoPadded, NameComma}

EmailJ == <<"j","@","x",".","c">>
EmailJUpper == <<"J","@","X",".","C">>
EmailK == <<"k","@","x",".","c">>
EmailKPadded == <<" ","k","@","x",".","c">>
Emails == {EmailJ, EmailJUpper, EmailK, EmailKPadded}

DobGood == <<"1","9","9","0","-","0","1","-","1","5">>
DobWrongOrder == <<"1","5","-","0","1","-","1","9","9","0">>
DobFuture == <<"2","9","9","9","-","0","1","-","0","1">>
Dobs == {DobGood, DobWrongOrder, DobFuture}

Queries == {<<"j","@">>, <<" ","B","O">>}

\* the add tool and the list tool each build one RegistrationManager
Managers == {"add_tool", "list_tool"}
Procs == {1, 2}

\* again: the call is a list that directly follows a list
NoCall == [op |-> "none", by |-> "none", name |-> <<>>, email |-> <<>>,
           dob |-> <<>>, query |-> <<>>, again |-> FALSE]
NoArgs == [name |-> <<>>, email |-> <<>>, dob |-> <<>>]
NoResult == [raised |-> "none"]

Init ==
    /\ file = NoFile
    /\ constructed = {}
    /\ clock = 0
    /\ call = NoCall
    /\ result = NoResult
    /\ fileBefore = NoFile
    /\ addLog = <<>>
    /\ tampered = FALSE
    /\ perm = "rw"
    /\ pc = [p \in Procs |-> "idle"]
    /\ args = [p \in Procs |-> NoArgs]
    /\ stamp = [p \in Procs |-> [seen |-> 0, passed |-> FALSE, date |-> <<>>]]
    /\ ret = [p \in Procs |-> NoResult]

seqVars == <<call, result, fileBefore, addLog>>
concVars == <<pc, args, stamp, ret>>

\* RegistrationManager(): __init__ runs ensure_csv_exists
Construct(m) ==
    /\ m \notin constructed
    /\ constructed' = constructed \cup {m}
    /\ file' = ensure_csv_exists(file)
    /\ call' = [NoCall EXCEPT !.op = "construct", !.by = m]
    /\ result' = NoResult
    /\ fileBefore' = file
    /\ UNCHANGED <<clock, addLog, tampered, perm, concVars>>

Tick ==
    /\ clock < MaxClock
    /\ clock' = clock + 1
    /\ UNCHANGED <<file, constructed, seqVars, tampered, perm, concVars>>

Add(m, name, email, dob) ==
    /\ m \in constructed
    /\ \E out \in {add_registration_io(perm, file, name, email, dob, clock)} :
       /\ file' = out.file
       /\ result' = out.result
       /\ addLog' = IF Returned(out.result) /\ out.result.success /\ ~tampered
                    THEN Append(addLog, DictRow(REQUIRED_FIELDS,
                                  csv_readrow(out.file.lines[Len(out.file.lines)])))
                    ELSE addLog
    /\ call' = [op |-> "add", by |-> m, name |-> name, email |-> email,
                dob |-> dob, query |-> <<>>, again |-> FALSE]
    /\ fileBefore' = file
    /\ UNCHANGED <<constructed, clock, tampered, perm, concVars>>

\* variant: the file is opened with 'w+' where 'r' is meant
List_truncating(m) ==
    /\ m \in constructed
    /\ result' = get_all_registrations_io(perm, file)
    /\ call' = [NoCall EXCEPT !.op = "list", !.by = m, !.again = (call.op = "list")]
    /\ fileBefore' = file
    /\ file' = [exists |-> TRUE, lines |-> <<>>]
    /\ UNCHANGED <<constructed, clock, addLog, tampered, perm, concVars>>

List(m) ==
    /\ m \in constructed
    /\ result' = get_all_registrations_io(perm, file)
    /\ call' = [NoCall EXCEPT !.op = "list", !.by = m, !.again = (call.op = "list")]
    /\ fileBefore' = file
    /\ UNCHANGED <<file, constructed, clock, addLog, tampered, perm, concVars>>

Search(m, query) ==
    /\ m \in constructed
    /\ result' = search_registrations_io(perm, file, query)
    /\ call' = [NoCall EXCEPT !.op = "search", !.by = m, !.query = query]
    /\ fileBefore' = file
    /\ UNCHANGED <<file, constructed, clock, addLog, tampered, perm, concVars>>

EmailExists(m, email) ==
    /\ m \in constructed
    /\ result' = email_exists_io(perm, file, email)
    /\ call' = [NoCall EXCEPT !.op = "email_exists", !.by = m, !.email = email]
    /\ fileBefore' = file
    /\ UNCHANGED <<file, constructed, clock, addLog, tampered, perm, concVars>>

Next ==
    \/ \E m \in Managers : Construct(m)
    \/ Tick
    \/ \E name \in Names, email \in Emails, dob \in Dobs :
          Add("add_tool", name, email, dob)
    \/ \E m \in Managers : List(m)
    \/ \E query \in Queries : Search("list_tool", query)
    \/ \E email \in Emails : EmailExists("add_tool", email)

\* calls made one at a time on a file only the program touches
Spec == Init /\ [][Next]_vars

(***************************************************************************)
(* The same calls on a file that something outside the program may remove. *)
(***************************************************************************)
RemoveFile ==
    /\ file.exists
    /\ file' = NoFile
    /\ tampered' = TRUE
    /\ call' = NoCall
    /\ result' = NoResult
    /\ fileBefore' = NoFile
    /\ UNCHANGED <<constructed, clock, addLog, perm, concVars>>

EnvNames == {NameAl}
EnvEmails == {EmailJ, EmailK}
EnvDobs == {DobGood, DobWrongOrder}

NextEnv ==
    \/ \E m \in Managers : Construct(m)
    \/ Tick
    \/ \E name \in EnvNames, email \in EnvEmails, dob \in EnvDobs :
          Add("add_tool", name, email, dob)
    \/ \E m \in Managers : List(m)
    \/ \E query \in Queries : Search("list_tool", query)
    \/ \E email \in EnvEmails : EmailExists("add_tool", email)
    \/ RemoveFile

SpecEnv == Init /\ [][NextEnv]_vars

(***************************************************************************)
(* The same calls on a file whose permissions may be changed from outside. *)
(***************************************************************************)
Perms == {"rw", "r", "none"}

Chmod(p) ==
    /\ file.exists
    /\ p # perm
    /\ perm' = p
    /\ call' = NoCall
    /\ result' = NoResult
    /\ fileBefore' = NoFile
    /\ UNCHANGED <<file, constructed, clock, addLog, tampered, concVars>>

NextFault ==
    \/ \E m \in Managers : Construct(m)
    \/ Tick
    \/ \E name \in EnvNames, email \in EnvEmails, dob \in EnvDobs :
          Add("add_tool", name, email, dob)
    \/ \E m \in Managers : List(m)
    \/ \E query \in Queries : Search("list_tool", query)
    \/ \E email \in EnvEmails : EmailExists("add_tool", email)
    \/ \E p \in Perms : Chmod(p)

SpecFault == Init /\ [][NextFault]_vars

(***************************************************************************)
(* add_registration called by two callers at once: each statement that     *)
(* reads or writes the file or the clock is one step, and nothing orders   *)
(* the steps of one caller against the steps of the other.                 *)
(***************************************************************************)
ConcNames == {NameAl}
ConcEmails == {EmailJ, EmailJUpper, EmailK}
ConcDobs == {DobGood, DobWrongOrder}

Idle == [seen |-> 0, passed |-> FALSE, date |-> <<>>]

\* lines 19-25: the validators and the early return
Begin(p, name, email, dob) ==
    /\ pc[p] = "idle"
    /\ "add_tool" \in constructed
    /\ Len(file.lines) <= MaxRows
    /\ args' = [args EXCEPT ![p] = [name |-> name, email |-> email, dob |-> dob]]
    /\ \E v \in {run_validators(name, email, dob)} :
          IF all_valid(v)
          THEN pc' = [pc EXCEPT ![p] = "check"] /\ ret' = ret
          ELSE pc' = [pc EXCEPT ![p] = "done"]
               /\ ret' = [ret EXCEPT ![p] = validation_failed(v)]
    /\ UNCHANGED <<file, constructed, clock, seqVars, tampered, perm, stamp>>

\* lines 27-28: email_exists reads the whole file
CheckDuplicate(p) ==
    /\ pc[p] = "check"
    /\ \E ex \in {email_exists(file, args[p].email)} :
          IF ex.raised \/ ex.value
          THEN /\ pc' = [pc EXCEPT ![p] = "done"]
               /\ ret' = [ret EXCEPT ![p] = IF ex.raised THEN KeyError
                                            ELSE duplicate_email]
               /\ stamp' = stamp
          ELSE /\ pc' = [pc EXCEPT ![p] = "clock"]
               /\ stamp' = [stamp EXCEPT ![p].seen = Len(file.lines),
                                         ![p].passed = TRUE]
               /\ ret' = ret
    /\ UNCHANGED <<file, constructed, clock, seqVars, tampered, perm, args>>

\* line 30: datetime.now()
ReadClock(p) ==
    /\ pc[p] = "clock"
    /\ stamp' = [stamp EXCEPT ![p].date = strftime(clock)]
    /\ pc' = [pc EXCEPT ![p] = "write"]
    /\ UNCHANGED <<file, constructed, clock, seqVars, tampered, perm, args, ret>>

\* lines 31-35: the append and the returned value
WriteRow(p) ==
    /\ pc[p] = "write"
    /\ file' = open_append(file, stored_row(args[p].name, args[p].email,
                                            args[p].dob, stamp[p].date))
    /\ ret' = [ret EXCEPT ![p] = success_result(args[p].name, args[p].email,
                                                args[p].dob, stamp[p].date)]
    /\ pc' = [pc EXCEPT ![p] = "done"]
    /\ UNCHANGED <<constructed, clock, seqVars, tampered, perm, args, stamp>>

\* the caller takes the returned value and may call again
Return(p) ==
    /\ pc[p] = "done"
    /\ pc' = [pc EXCEPT ![p] = "idle"]
    /\ args' = [args EXCEPT ![p] = NoArgs]
    /\ stamp' = [stamp EXCEPT ![p] = Idle]
    /\ ret' = [ret EXCEPT ![p] = NoResult]
    /\ UNCHANGED <<file, constructed, clock, seqVars, tampered, perm>>

NextConc ==
    \/ \E m \in Managers : Construct(m)
    \/ Tick
    \/ \E p \in Procs, name \in ConcNames, email \in ConcEmails, dob \in ConcDobs :
          Begin(p, name, email, dob)
    \/ \E p \in Procs : CheckDuplicate(p)
    \/ \E p \in Procs : ReadClock(p)
    \/ \E p \in Procs : WriteRow(p)
    \/ \E p \in Procs : Return(p)

SpecConc == Init /\ [][NextConc]_vars

(***************************************************************************)
(* What the properties below speak about.                                  *)
(***************************************************************************)
Stored == get_all_registrations(file).data
Before == get_all_registrations(fileBefore).data

SameEmail(a, b) == str_lower(a) = str_lower(b)

NameOk == validate_name(call.name)[1]
EmailOk == validate_email(call.email)[1]
DobOk == validate_date_of_birth(call.dob)[1]
InputValid == NameOk /\ EmailOk /\ DobOk
FailureReasons ==
    (IF NameOk THEN {} ELSE {validate_name(call.name)[2]})
    \cup (IF EmailOk THEN {} ELSE {validate_email(call.email)[2]})
    \cup (IF DobOk THEN {} ELSE {validate_date_of_birth(call.dob)[2]})
EmailKnownBefore == \E i \in 1..Len(Before) : SameEmail(Before[i][KEmail], call.email)

\* C1: calls made one at a time never leave two stored records whose emails are
\* equal when case is ignored.
C1_UniqueEmails ==
    LET unique(rows) ==
            \A i, j \in 1..Len(rows) :
                i # j => ~SameEmail(rows[i][KEmail], rows[j][KEmail])
    IN  unique(Stored)

\* two records are stored and a third add, with the first email in other case,
\* has just been turned down
C1_Witness ==
    /\ Len(Stored) = 2
    /\ call.op = "add"
    /\ result = duplicate_email
    /\ \E i \in 1..Len(Stored) :
          Stored[i][KEmail] # call.email /\ SameEmail(Stored[i][KEmail], call.email)

\* C3: an add whose input fails a validator returns "Validation failed", never
\* "Email already registered", also when the email is already stored.
C3_ValidationBeforeDuplicate ==
    (call.op = "add" /\ ~InputValid) =>
        /\ Returned(result)
        /\ ~result.success
        /\ result.error = "Validation failed"
        /\ result # duplicate_email

\* the name is malformed while the (well-formed) email is already stored
C3_Witness ==
    /\ call.op = "add"
    /\ ~NameOk /\ EmailOk /\ DobOk
    /\ EmailKnownBefore
    /\ result.error = "Validation failed"

\* C4: an add whose input fails a validator leaves the file as it found it, so
\* every stored record passes the three validators.
C4_NoWriteOnInvalid ==
    /\ (call.op = "add" /\ ~InputValid) => file = fileBefore
    /\ LET valid(rows) ==
               \A i \in 1..Len(rows) :
                   /\ validate_name(rows[i][KName])[1]
                   /\ validate_email(rows[i][KEmail])[1]
                   /\ validate_date_of_birth(rows[i][KDob])[1]
       IN  valid(Stored)

\* a future date of birth, all else well-formed and new, on a file with a record
C4_Witness ==
    /\ call.op = "add"
    /\ NameOk /\ EmailOk /\ ~EmailKnownBefore
    /\ call.dob = DobFuture
    /\ Len(Before) = 1
    /\ file = fileBefore

\* C5: a failed validation reports the reason of every validator that failed and
\* no other reason, in the returned value and in the tool's text.
C5_EveryReasonReported ==
    (call.op = "add" /\ ~InputValid) =>
        /\ {result.details[i] : i \in 1..Len(result.details)} \ {PassMsg}
              = FailureReasons
        /\ LET text == add_registration_tool(result) IN
           /\ ~text.ok
           /\ text.lines[1] = "Validation failed"
           /\ {text.lines[i] : i \in 2..Len(text.lines)} \ {PassMsg} = FailureReasons

\* the second and the third validator fail together, the first passes
C5_Witness ==
    /\ call.op = "add"
    /\ NameOk /\ ~EmailOk /\ ~DobOk
    /\ Cardinality(FailureReasons) = 2
    /\ Len(result.details) = 3

\* C6: a well-formed add whose email is stored in any mix of case returns
\* "Email already registered" and leaves the file as it found it.
C6_DuplicateRejected ==
    (call.op = "add" /\ InputValid /\ EmailKnownBefore) =>
        /\ result = duplicate_email
        /\ result.error = "Email already registered"
        /\ file = fileBefore

\* the stored email is upper case, the offered one lower case
C6_Witness ==
    /\ call.op = "add"
    /\ InputValid
    /\ call.email = EmailJ
    /\ \E i \in 1..Len(Before) : Before[i][KEmail] = EmailJUpper
    /\ result = duplicate_email

\* C7: a well-formed add with a new email returns success and appends one record
\* after the unchanged older ones; list, from either manager, returns the records
\* the adds wrote, in that order, each with its four fields filled.
C7_AddAppendsOneRecord ==
    /\ (call.op = "add" /\ InputValid /\ ~EmailKnownBefore) =>
          /\ Returned(result) /\ result.success
          /\ LET appended(old, rows) ==
                     /\ Len(rows) = Len(old) + 1
                     /\ SubSeq(rows, 1, Len(old)) = old
                     /\ addLog[Len(addLog)] = rows[Len(rows)]
                 filled(new) ==
                     /\ DOMAIN new = Range(REQUIRED_FIELDS)
                     /\ \A k \in DOMAIN new : new[k] # <<>> /\ new[k] # NoneValue
                     /\ new[KEmail] = call.email
                     /\ new[KDob] = call.dob
                     /\ new[KRegDate] = result.data[KRegDate]
             IN  appended(Before, Stored) /\ filled(addLog[Len(addLog)])
    /\ call.op = "list" => result.data = addLog

\* the list tool's manager lists two records the add tool's manager wrote
C7_Witness ==
    /\ call.op = "list"
    /\ call.by = "list_tool"
    /\ Len(result.data) = 2
    /\ result.data = addLog

\* C8: the record list returns for a successful add carries the caller's name,
\* email and date of birth unchanged and is the record add returned.
C8_RoundTrip ==
    (call.op = "add" /\ Returned(result) /\ result.success) =>
        LET same(new) ==
                /\ new[KName] = call.name
                /\ new[KEmail] = call.email
                /\ new[KDob] = call.dob
                /\ new = result.data
        IN  same(Stored[Len(Stored)])

\* C10: the stored registration dates never decrease along the file.
AsciiOrder == <<" ", "-", "0", "1", "2", "3", "4", "5", "6", "7", "8", "9", ":">>
AsciiRank == [c \in Range(AsciiOrder) |->
                CHOOSE i \in 1..Len(AsciiOrder) : AsciiOrder[i] = c]

RECURSIVE str_leq(_, _)
str_leq(a, b) ==
    IF a = <<>> THEN TRUE
    ELSE IF b = <<>> THEN FALSE
    ELSE IF Head(a) = Head(b) THEN str_leq(Tail(a), Tail(b))
    ELSE AsciiRank[Head(a)] < AsciiRank[Head(b)]

C10_TimestampsNonDecreasing ==
    LET ordered(rows) ==
            \A i, j \in 1..Len(rows) :
                i < j => str_leq(rows[i][KRegDate], rows[j][KRegDate])
    IN  ordered(Stored)

\* two records written in different seconds
C10_Witness ==
    /\ Len(Stored) = 2
    /\ Stored[1][KRegDate] # Stored[2][KRegDate]
    /\ str_leq(Stored[1][KRegDate], Stored[2][KRegDate])

(***************************************************************************)
(* Interleaved callers.                                                    *)
(***************************************************************************)
RacedPair(p, q) ==
    /\ p # q
    /\ pc[p] = "done" /\ pc[q] = "done"
    /\ stamp[p].passed /\ stamp[q].passed
    /\ stamp[p].seen = stamp[q].seen
    /\ SameEmail(args[p].email, args[q].email)

\* C2: when two interleaved adds of one new email both pass the duplicate check
\* before either appends, both return success and the file ends with two records
\* of that email.
C2_RaceStoresEmailTwice ==
    \A p, q \in Procs :
        RacedPair(p, q) =>
            /\ Returned(ret[p]) /\ ret[p].success
            /\ Returned(ret[q]) /\ ret[q].success
            /\ LET twice(rows) ==
                       Cardinality({i \in 1..Len(rows) :
                                      SameEmail(rows[i][KEmail], args[p].email)}) = 2
               IN  twice(Stored)

\* both callers offered the very same email and both were told success
C2_Witness ==
    /\ RacedPair(1, 2)
    /\ args[1].email = EmailJ /\ args[2].email = EmailJ
    /\ ret[1].success /\ ret[2].success
    /\ Len(Stored) = 2
    /\ Stored[1][KEmail] = Stored[2][KEmail]

\* C9: list succeeds with every record the adds wrote, in the order the adds
\* completed; on a new store, and when the file is missing, it succeeds with an
\* empty list.
C9_ListInFileOrder ==
    call.op = "list" =>
        /\ Returned(result) /\ result.success
        /\ ~fileBefore.exists => result.data = <<>>
        /\ ~tampered => result.data = addLog

\* list is called after the file, which held two records, was removed
C9_Witness ==
    /\ call.op = "list"
    /\ ~fileBefore.exists
    /\ Len(addLog) = 2
    /\ result.success /\ result.data = <<>>

(***************************************************************************)
(* The header line.                                                        *)
(***************************************************************************)
HeaderLine ==
    <<"N","a","m","e",",","E","m","a","i","l",",",
      "D","a","t","e","_","o","f","_","B","i","r","t","h",",",
      "R","e","g","i","s","t","r","a","t","i","o","n","_","D","a","t","e">>

\* C11: building a manager writes the header line, and nothing else, when the
\* file is missing and leaves an existing file as it is; whenever the file holds
\* a data line its first line is the header and no later line is.
C11_HeaderOnceNeverOverwritten ==
    /\ call.op = "construct" =>
          IF fileBefore.exists THEN file = fileBefore
          ELSE file = [exists |-> TRUE, lines |-> <<HeaderLine>>]
    /\ (file.exists /\ Len(file.lines) >= 2) =>
          /\ file.lines[1] = HeaderLine
          /\ \A i \in 2..Len(file.lines) : file.lines[i] # HeaderLine

\* the second manager has just been built on a file that holds two records
C11_Witness ==
    /\ call.op = "construct"
    /\ constructed = Managers
    /\ fileBefore.exists /\ Len(fileBefore.lines) = 3
    /\ file = fileBefore

(***************************************************************************)
(* Failing storage.                                                        *)
(***************************************************************************)
\* an open() of the add call was refused
AddStorageFailed ==
    /\ InputValid
    /\ fileBefore.exists
    /\ perm = "none" \/ (perm = "r" /\ ~EmailKnownBefore)

\* C12: an add returns one of success, "Validation failed" and "Email already
\* registered", and raises only when the file could not be opened; then nothing
\* is written and the HTTP layer answers with an error status, never with a
\* success text; a list of an unreadable file raises too, it is no empty list.
C12_OnlyStorageFailureRaises ==
    /\ call.op = "add" =>
          /\ ~Returned(result) <=> AddStorageFailed
          /\ ~Returned(result) =>
                /\ result = PermissionError
                /\ file = fileBefore
                /\ add_registration_http(result).status = 400
          /\ Returned(result) =>
                /\ \/ result.success /\ file # fileBefore
                   \/ ~result.success /\ result.error = "Validation failed" /\ ~InputValid
                   \/ ~result.success /\ result = duplicate_email /\ InputValid
                /\ add_registration_http(result).status = 200
                /\ add_registration_http(result).result.ok = result.success
    /\ call.op = "list" =>
          /\ ~Returned(result) <=> (fileBefore.exists /\ perm = "none")
          /\ ~Returned(result) =>
                /\ result = PermissionError
                /\ get_all_registrations_http(result).status = 500
          /\ Returned(result) => get_all_registrations_http(result).status = 200

\* a well-formed add with a new email on a read-only file that holds a record:
\* the duplicate check reads the file, the append is refused
C12_Witness ==
    /\ call.op = "add"
    /\ InputValid /\ ~EmailKnownBefore
    /\ perm = "r"
    /\ Len(Before) = 1
    /\ result = PermissionError
    /\ file = fileBefore

(***************************************************************************)
(* Search.                                                                 *)
(***************************************************************************)
Matches(q, r) ==
    str_contains(q, str_lower(r[KName])) \/ str_contains(q, str_lower(r[KEmail]))

SearchAnswers(q) ==
    /\ Returned(result) /\ result.success
    /\ LET same(rows) ==
               /\ result.data = SelectSeq(rows, LAMBDA r : Matches(q, r))
               /\ result.count = Len(result.data)
       IN  same(Before)

\* C13 as stated: search returns, in insertion order and with their count, the
\* stored records whose name or email contains the query, case ignored.
C13_SearchByQuery ==
    call.op = "search" => SearchAnswers(str_lower(call.query))

\* C13 as amended: the query is first stripped of surrounding whitespace.
C13_SearchByStrippedQuery ==
    call.op = "search" => SearchAnswers(str_strip(str_lower(call.query)))

\* the query " BO" finds the one record named "Bo" among two
C13_Witness ==
    /\ call.op = "search"
    /\ call.query = <<" ","B","O">>
    /\ Len(Before) = 2
    /\ result.count = 1
    /\ result.data[1][KName] = <<"B","o">>

(***************************************************************************)
(* Reads.                                                                  *)
(***************************************************************************)
ReadOps == {"list", "search", "email_exists"}

\* C14: list, search and email_exists leave the file as they found it, and a
\* list that directly follows a list returns what that one returned.
C14_ReadsLeaveFileAlone ==
    /\ [](call.op \in ReadOps => file = fileBefore)
    /\ [][(call'.op = "list" /\ call'.again) => result' = result]_vars

\* a second list in a row, on a file that holds two records
C14_Witness ==
    /\ call.op = "list"
    /\ call.again
    /\ Len(result.data) = 2
    /\ file = fileBefore

====
